---- MODULE Spec2Model ----
(***************************************************************************)
(* sctl: a local secret store (.scuttle.json) whose values are encrypted   *)
(* by an external KMS, and a launcher that exports the decrypted secrets   *)
(* into a child process.  One state-machine action per CLI command         *)
(* (add, rm, list, run); each action is one whole invocation of the        *)
(* process, from argument handling to exit.                                *)
(*                                                                         *)
(* Strings and byte slices are sequences of one-character strings.  The    *)
(* store document is a sequence of JSON tokens, so that a short write      *)
(* leaves a proper prefix of the serialisation on disk.                    *)
(***************************************************************************)
EXTENDS Integers, Sequences, FiniteSets, TLC

VARIABLES file, last

vars == <<file, last>>

\* ------------------------------------------------------------------ bounds
\* Largest store an add invocation is allowed to produce.
MaxStore == 3
\* Largest number of command-line arguments given to run.
MaxArgs == 2
\* Largest number of records in a hand-written initial document (SpecDoc).
MaxDoc == 2

\* ------------------------------------------------------------------ inputs
\* Names given on the command line, of any letter case, the empty one included.
Names == { <<>>, <<"a">>, <<"A">>, <<"b">> }
\* Secret values given on the command line.
Plaintexts == { <<"x">>, <<"y">> }
\* Key references (--key / SCTL_KEY); "" is the value of the unset flag.
Keys == { "k1", "" }
\* Values of time.Now().
Times == { "t1" }
\* Words given to run as command or argument.
ArgWords == { <<"e">>, <<"h", " ", "w">> }
\* Values of os.Environ().
Environs == { << <<"A", "=", "z">>, <<"H", "=", "q">> >> }
\* What becomes of the launched command: it cannot be started (NotStarted),
\* or it runs and ends with this exit code.
NotStarted == -1

ChildStatuses == { NotStarted, 0, 3 }

\* ---------------------------------------------------------- strings.ToUpper
UpperRune(c) == CASE c = "a" -> "A" [] c = "b" -> "B" [] OTHER -> c

RECURSIVE ToUpper(_)
ToUpper(s) == IF s = <<>> THEN <<>> ELSE <<UpperRune(Head(s))>> \o ToUpper(Tail(s))

\* ------------------------------------------------------------------ Secret
ZeroTime == "t0"

ZeroSecret == [name |-> <<>>, cypher |-> <<>>, created |-> ZeroTime]

\* ------------------------------------------------------------- KMS gateway
\* The one key the KMS accepts.
ValidKey == "k1"

\* client.Encrypt: rejects an unknown key; the ciphertext is an opaque blob
\* (header byte, payload, authentication tag).
encryptSymmetric(keyName, plaintext) ==
    IF keyName # ValidKey
    THEN [err |-> TRUE, bytes |-> <<>>]
    ELSE [err |-> FALSE, bytes |-> <<"#">> \o plaintext \o <<"$">>]

\* client.Decrypt: rejects an unknown key and any blob that is not a whole
\* ciphertext; on error the returned slice is nil.
decryptSymmetric(keyName, ciphertext) ==
    IF \/ keyName # ValidKey
       \/ Len(ciphertext) < 2
       \/ ciphertext[1] # "#"
       \/ ciphertext[Len(ciphertext)] # "$"
    THEN [err |-> TRUE, bytes |-> <<>>]
    ELSE [err |-> FALSE, bytes |-> SubSeq(ciphertext, 2, Len(ciphertext) - 1)]

\* ------------------------------------------------------------------ base64
B64Alphabet == { "Iw", "JA", "eA", "eQ" }

B64Sym(b) == CASE b = "#" -> "Iw" [] b = "$" -> "JA" [] b = "x" -> "eA" [] OTHER -> "eQ"

B64Byte(s) == CASE s = "Iw" -> "#" [] s = "JA" -> "$" [] s = "eA" -> "x" [] OTHER -> "y"

RECURSIVE EncodeToString(_)
EncodeToString(b) ==
    IF b = <<>> THEN <<>> ELSE <<B64Sym(Head(b))>> \o EncodeToString(Tail(b))

\* DecodeString returns the bytes decoded before the first corrupt symbol,
\* together with the error.
RECURSIVE DecodeString(_)
DecodeString(s) ==
    IF s = <<>> THEN [err |-> FALSE, bytes |-> <<>>]
    ELSE IF Head(s) \notin B64Alphabet THEN [err |-> TRUE, bytes |-> <<>>]
    ELSE LET r == DecodeString(Tail(s))
         IN  [err |-> r.err, bytes |-> <<B64Byte(Head(s))>> \o r.bytes]

\* ------------------------------------------------------------ JSON document
Tok(t, v) == [t |-> t, v |-> v]

MarshalSecret(s) ==
    << Tok("{", <<>>), Tok("name", s.name), Tok("cypher", s.cypher),
       Tok("created", <<s.created>>), Tok("}", <<>>) >>

RECURSIVE MarshalElems(_)
MarshalElems(data) ==
    IF data = <<>> THEN <<>>
    ELSE MarshalSecret(Head(data))
         \o (IF Tail(data) = <<>> THEN <<>> ELSE <<Tok(",", <<>>)>>)
         \o MarshalElems(Tail(data))

\* json.MarshalIndent(&data, "", " "): a nil slice is written as null.
MarshalIndent(isNil, data) ==
    IF isNil THEN <<Tok("null", <<>>)>>
    ELSE <<Tok("[", <<>>)>> \o MarshalElems(data) \o <<Tok("]", <<>>)>>

\* json.Unmarshal into []Secret: one whole JSON value, null or an array of
\* objects; a missing member leaves the zero value, a repeated one overwrites.
RECURSIVE Scan(_, _, _, _)
Scan(toks, st, cur, acc) ==
    IF toks = <<>>
    THEN [err |-> st \notin {"end", "endnil"}, isNil |-> st = "endnil", data |-> acc]
    ELSE LET k == Head(toks)
             r == Tail(toks)
             bad == [err |-> TRUE, isNil |-> FALSE, data |-> <<>>]
         IN  CASE st = "value" /\ k.t = "null" -> Scan(r, "endnil", cur, acc)
               [] st = "value" /\ k.t = "[" -> Scan(r, "first", cur, acc)
               [] st = "first" /\ k.t = "]" -> Scan(r, "end", cur, acc)
               [] st \in {"first", "elem"} /\ k.t = "{" -> Scan(r, "obj", ZeroSecret, acc)
               [] st = "obj" /\ k.t = "name" -> Scan(r, "obj", [cur EXCEPT !.name = k.v], acc)
               [] st = "obj" /\ k.t = "cypher" -> Scan(r, "obj", [cur EXCEPT !.cypher = k.v], acc)
               [] st = "obj" /\ k.t = "created" /\ Len(k.v) = 1 ->
                      Scan(r, "obj", [cur EXCEPT !.created = k.v[1]], acc)
               [] st = "obj" /\ k.t = "}" -> Scan(r, "next", cur, Append(acc, cur))
               [] st = "next" /\ k.t = "," -> Scan(r, "elem", cur, acc)
               [] st = "next" /\ k.t = "]" -> Scan(r, "end", cur, acc)
               [] OTHER -> bad

Unmarshal(toks) == Scan(toks, "value", ZeroSecret, <<>>)

\* ------------------------------------------------------------- the document
Absent == [exists |-> FALSE, data |-> <<>>]

Document(toks) == [exists |-> TRUE, data |-> toks]

\* Variant of readSecrets that treats an unparsable document like an absent
\* one.
readSecretsLenient(f) ==
    IF ~f.exists THEN [fatal |-> FALSE, isNil |-> FALSE, data |-> <<>>]
    ELSE LET u == Unmarshal(f.data)
         IN  IF u.err THEN [fatal |-> FALSE, isNil |-> FALSE, data |-> <<>>]
             ELSE [fatal |-> FALSE, isNil |-> u.isNil, data |-> u.data]

\* readSecrets: an unreadable (absent) document is the empty store, an
\* unparsable one is fatal.
readSecrets(f) ==
    IF ~f.exists THEN [fatal |-> FALSE, isNil |-> FALSE, data |-> <<>>]
    ELSE LET u == Unmarshal(f.data)
         IN  [fatal |-> u.err, isNil |-> u.isNil, data |-> u.data]

\* Variant of WriteFile that opens without O_TRUNC: what it does not
\* overwrite of the old contents stays.
WriteFileNoTrunc(f, bytes, faulty) ==
    LET over(k) == Document(SubSeq(bytes, 1, k) \o SubSeq(f.data, k + 1, Len(f.data)))
    IN  { [file |-> over(Len(bytes)), err |-> FALSE, wrote |-> "full"] }
        \cup
        (IF faulty
         THEN { [file |-> f, err |-> TRUE, wrote |-> "open"] }
              \cup
              { [file |-> over(k), err |-> TRUE, wrote |-> "short"] : k \in 0..Len(bytes) }
         ELSE {})

\* ioutil.WriteFile: open with O_TRUNC, write, close.  On a reliable disk it
\* leaves the bytes given.  On a faulty one the open can also fail (document
\* untouched), and after the truncation the write can stop after any number
\* of tokens (the close can fail after the last one).
WriteFile(f, bytes, faulty) ==
    { [file |-> Document(bytes), err |-> FALSE, wrote |-> "full"] }
    \cup
    (IF faulty
     THEN { [file |-> f, err |-> TRUE, wrote |-> "open"] }
          \cup
          { [file |-> Document(SubSeq(bytes, 1, k)), err |-> TRUE, wrote |-> "short"] :
              k \in 0..Len(bytes) }
     ELSE {})

\* ------------------------------------------------- addSecret / rmSecret loop
\* for index, element := range secrets { if element.Name == name { swap-remove } }
\* The range runs over the original length and reads the shared backing
\* array arr; len is the current length of the re-sliced secrets.  Indexing
\* secrets[index] with index >= len(secrets) panics.  log holds the
\* "Removing entry" lines printed so far.
\* Variant of the loop whose comparison never matches: nothing is removed.
RangeRemoveNone(arr, len, i, name, log) ==
    [panic |-> FALSE, secrets |-> SubSeq(arr, 1, len), log |-> log]

RECURSIVE RangeRemove(_, _, _, _, _)
RangeRemove(arr, len, i, name, log) ==
    IF i > Len(arr) THEN [panic |-> FALSE, secrets |-> SubSeq(arr, 1, len), log |-> log]
    ELSE IF arr[i].name = name
         THEN IF i > len THEN [panic |-> TRUE, secrets |-> <<>>, log |-> Append(log, name)]
              ELSE LET a1 == [arr EXCEPT ![i] = arr[len]]
                       a2 == [a1 EXCEPT ![len] = ZeroSecret]
                   IN  RangeRemove(a2, len - 1, i + 1, name, Append(log, name))
         ELSE RangeRemove(arr, len, i + 1, name, log)

\* ------------------------------------------------------- invocation record
NoChild == [attempted |-> FALSE, started |-> FALSE, argv |-> <<>>, code |-> 0]

\* What the last invocation was given (args, key, environ) and what it did:
\* its exit status, the lines on stdout (out) and the log lines (log), the
\* store it handed to writeSecrets and how far the write got, the
\* environment it built and the child it launched.
Invocation(op, args, key) ==
    [op |-> op, args |-> args, key |-> key, exit |-> 0, out |-> <<>>, log |-> <<>>,
     wrote |-> "none", savedNil |-> FALSE, saved |-> <<>>,
     environ |-> <<>>, cmdEnv |-> <<>>, child |-> NoChild]

\* log.Fatal: exit status 1.
Fatal(inv) == [inv EXCEPT !.exit = 1]

\* A run-time panic: exit status 2.
Panic(inv) == [inv EXCEPT !.exit = 2]

\* writeSecrets: marshal, write, log.Fatal on error.
writeSecrets(f, inv, isNil, data, faulty) ==
    { [file |-> w.file,
       last |-> [inv EXCEPT !.wrote = w.wrote, !.savedNil = isNil, !.saved = data,
                            !.exit = IF w.err THEN 1 ELSE 0]] :
        w \in WriteFile(f, MarshalIndent(isNil, data), faulty) }

\* addSecret: read, remove the records of that name, append, write.
addSecret(f, inv, to_add, faulty) ==
    LET r == readSecrets(f)
        rr == RangeRemove(r.data, Len(r.data), 1, to_add.name, <<>>)
        logged == [inv EXCEPT !.log = rr.log]
    IN  IF r.fatal THEN { [file |-> f, last |-> Fatal(inv)] }
        ELSE IF rr.panic THEN { [file |-> f, last |-> Panic(logged)] }
        ELSE writeSecrets(f, logged, FALSE, Append(rr.secrets, to_add), faulty)

\* rmSecret: read, remove the records of that name, write.
rmSecret(f, inv, secret_name, faulty) ==
    LET r == readSecrets(f)
        rr == RangeRemove(r.data, Len(r.data), 1, secret_name, <<>>)
        logged == [inv EXCEPT !.log = rr.log]
    IN  IF r.fatal THEN { [file |-> f, last |-> Fatal(inv)] }
        ELSE IF rr.panic THEN { [file |-> f, last |-> Panic(logged)] }
        ELSE writeSecrets(f, logged, r.isNil, rr.secrets, faulty)

\* c.Args().First()
First(args) == IF args = <<>> THEN <<>> ELSE args[1]

\* ------------------------------------------------------------------- add
AddArgLists ==
    { <<>> } \cup { <<n>> : n \in Names } \cup { <<n, v>> : n \in Names, v \in Plaintexts }

\* Variant of the add action that discards the error of encryptSymmetric,
\* as the run action does with decryptSymmetric.
AddCommandIgnoreErr(f, args, key, now, faulty) ==
    LET inv == Invocation("add", args, key)
    IN  IF Len(args) <= 1 THEN { [file |-> f, last |-> Fatal(inv)] }
        ELSE LET enc == encryptSymmetric(key, args[2])
                 to_add == [name |-> ToUpper(First(args)),
                            cypher |-> EncodeToString(enc.bytes),
                            created |-> now]
             IN  addSecret(f, inv, to_add, faulty)

AddCommand(f, args, key, now, faulty) ==
    LET inv == Invocation("add", args, key)
    IN  IF Len(args) <= 1 THEN { [file |-> f, last |-> Fatal(inv)] }
        ELSE LET enc == encryptSymmetric(key, args[2])
                 to_add == [name |-> ToUpper(First(args)),
                            cypher |-> EncodeToString(enc.bytes),
                            created |-> now]
             IN  IF enc.err THEN { [file |-> f, last |-> Fatal(inv)] }
                 ELSE addSecret(f, inv, to_add, faulty)

AddOn(faulty) ==
    \E args \in AddArgLists, key \in Keys, now \in Times :
      \E o \in AddCommand(file, args, key, now, faulty) :
        /\ Len(o.last.saved) <= MaxStore
        /\ file' = o.file
        /\ last' = o.last

Add == AddOn(FALSE)

AddFaulty == AddOn(TRUE)

\* -------------------------------------------------------------------- rm
RmArgLists == { <<>> } \cup { <<n>> : n \in Names }

RmCommand(f, args, faulty) ==
    rmSecret(f, Invocation("rm", args, ""), ToUpper(First(args)), faulty)

RmOn(faulty) ==
    \E args \in RmArgLists :
      \E o \in RmCommand(file, args, faulty) :
        /\ file' = o.file
        /\ last' = o.last

Rm == RmOn(FALSE)

RmFaulty == RmOn(TRUE)

\* ------------------------------------------------------------------ list
Ord(c) == CASE c = "A" -> 65 [] c = "B" -> 66 [] c = "a" -> 97 [] c = "b" -> 98 [] OTHER -> 0

RECURSIVE StrLess(_, _)
StrLess(s, t) ==
    IF t = <<>> THEN FALSE
    ELSE IF s = <<>> THEN TRUE
    ELSE IF Ord(Head(s)) # Ord(Head(t)) THEN Ord(Head(s)) < Ord(Head(t))
    ELSE StrLess(Tail(s), Tail(t))

RECURSIVE InsertSorted(_, _)
InsertSorted(k, ks) ==
    IF ks = <<>> THEN <<k>>
    ELSE IF StrLess(Head(ks), k) THEN <<Head(ks)>> \o InsertSorted(k, Tail(ks))
    ELSE <<k>> \o ks

\* sort.Strings
RECURSIVE SortStrings(_)
SortStrings(ks) ==
    IF ks = <<>> THEN <<>> ELSE InsertSorted(Head(ks), SortStrings(Tail(ks)))

RECURSIVE SecretNames(_)
SecretNames(secrets) ==
    IF secrets = <<>> THEN <<>> ELSE <<Head(secrets).name>> \o SecretNames(Tail(secrets))

ListCommand(f) ==
    LET inv == Invocation("list", <<>>, "")
        r == readSecrets(f)
    IN  IF r.fatal THEN Fatal(inv)
        ELSE [inv EXCEPT !.out = SortStrings(SecretNames(r.data))]

List ==
    /\ file' = file
    /\ last' = ListCommand(file)

\* ------------------------------------------------------------------- run
\* strings.Join(a, sep)
RECURSIVE Join(_, _)
Join(a, sep) ==
    IF a = <<>> THEN <<>>
    ELSE IF Tail(a) = <<>> THEN Head(a)
    ELSE Head(a) \o sep \o Join(Tail(a), sep)

\* shlex tokenizer: white space separates words, a single quote opens a
\* non-escaping quotation, every other character is part of a word; the end
\* of input inside a quotation is an error and drops the open word.
RECURSIVE Lex(_, _, _, _)
Lex(s, st, word, acc) ==
    IF s = <<>>
    THEN CASE st = "start" -> [err |-> FALSE, words |-> acc]
           [] st = "inWord" -> [err |-> FALSE, words |-> Append(acc, word)]
           [] OTHER -> [err |-> TRUE, words |-> acc]
    ELSE LET c == Head(s)
             r == Tail(s)
         IN  CASE st = "start" /\ c = " " -> Lex(r, "start", <<>>, acc)
               [] st = "start" /\ c = "'" -> Lex(r, "quoting", <<>>, acc)
               [] st = "start" -> Lex(r, "inWord", <<c>>, acc)
               [] st = "inWord" /\ c = " " -> Lex(r, "start", <<>>, Append(acc, word))
               [] st = "inWord" /\ c = "'" -> Lex(r, "quoting", word, acc)
               [] st = "inWord" -> Lex(r, "inWord", Append(word, c), acc)
               [] st = "quoting" /\ c = "'" -> Lex(r, "inWord", word, acc)
               [] OTHER -> Lex(r, "quoting", Append(word, c), acc)

\* shlex.Split
Split(s) == Lex(s, "start", <<>>, <<>>)

\* cmd.Args as the run action sets it; the error of Split is discarded.
CmdArgs(args) == Split(Join(args, <<",", " ">>)).words

\* The loop body of run: decode, decrypt (both errors discarded), format.
SecretEnv(key, secret) ==
    LET decoded == DecodeString(secret.cypher).bytes
        cypher == decryptSymmetric(key, decoded).bytes
    IN  secret.name \o <<"=">> \o cypher

RECURSIVE SecretEnvs(_, _)
SecretEnvs(key, secrets) ==
    IF secrets = <<>> THEN <<>>
    ELSE <<SecretEnv(key, Head(secrets))>> \o SecretEnvs(key, Tail(secrets))

\* decode or decrypt of this secret fails with this key
DecryptFails(key, secret) ==
    LET d == DecodeString(secret.cypher)
    IN  d.err \/ decryptSymmetric(key, d.bytes).err

RECURSIVE Usable(_, _)
Usable(key, secrets) ==
    IF secrets = <<>> THEN <<>>
    ELSE (IF DecryptFails(key, Head(secrets)) THEN <<>> ELSE <<Head(secrets)>>)
         \o Usable(key, Tail(secrets))

\* Variant of the loop that skips a secret whose decode or decrypt fails.
CmdEnvSkipFailed(environ, key, secrets) == environ \o SecretEnvs(key, Usable(key, secrets))

\* Variant of the loop that puts the secrets before the inherited entries.
CmdEnvSecretsFirst(environ, key, secrets) == SecretEnvs(key, secrets) \o environ

\* cmd.Env = append(os.Environ(), one entry per secret ...)
CmdEnv(environ, key, secrets) == environ \o SecretEnvs(key, secrets)

RunArgLists == UNION { [1..n -> ArgWords] : n \in 0..MaxArgs }

\* cmd := exec.Command(c.Args().First()); cmd.Args, _ = shlex.Split(...)
ExecCommand(args) == [path |-> First(args), args |-> CmdArgs(args)]

\* cmd.Env = os.Environ(); secrets = readSecrets(); the loop over secrets.
LoadEnv(f, key, environ) ==
    LET r == readSecrets(f)
    IN  IF r.fatal THEN [fatal |-> TRUE, env |-> <<>>]
        ELSE [fatal |-> FALSE, env |-> CmdEnv(environ, key, r.data)]

\* The run action, given the command and the environment it has built.
\* cmd.Run(): the child starts when the command resolves; it is given
\* cmd.Args (or the path alone when cmd.Args is empty) and cmd.Env; any
\* error, a non-zero exit of the child included, ends in log.Fatal.
RunCommand(args, key, environ, cmd, loaded, status) ==
    LET inv == [Invocation("run", args, key) EXCEPT !.environ = environ]
        started == status # NotStarted /\ cmd.path # <<>>
        argv == IF cmd.args = <<>> THEN <<cmd.path>> ELSE cmd.args
    IN  IF loaded.fatal THEN Fatal(inv)
        ELSE [inv EXCEPT !.cmdEnv = loaded.env,
                         !.child = [attempted |-> TRUE, started |-> started,
                                    argv |-> IF started THEN argv ELSE <<>>,
                                    code |-> IF started THEN status ELSE 0],
                         !.exit = IF started /\ status = 0 THEN 0 ELSE 1]

Run ==
    \E key \in Keys, environ \in Environs :
      \E loaded \in { LoadEnv(file, key, environ) } :
        \E args \in RunArgLists :
          \E cmd \in { ExecCommand(args) } :
            \E status \in ChildStatuses :
              /\ file' = file
              /\ last' = RunCommand(args, key, environ, cmd, loaded, status)

\* The environment as the child sees it: of several entries for one name the
\* last one counts.
RECURSIVE EnvName(_)
EnvName(e) ==
    IF e = <<>> \/ Head(e) = "=" THEN <<>> ELSE <<Head(e)>> \o EnvName(Tail(e))

EnvValue(e) == SubSeq(e, Len(EnvName(e)) + 2, Len(e))

Getenv(env, name) ==
    LET hits == { i \in 1..Len(env) : EnvName(env[i]) = name }
    IN  IF hits = {} THEN <<>>
        ELSE EnvValue(env[CHOOSE i \in hits : \A j \in hits : j <= i])

\* ------------------------------------------------------------ specification
Init ==
    /\ file = Absent
    /\ last = Invocation("none", <<>>, "")

Next == Add \/ Rm \/ List \/ Run

\* The commands on a reliable disk, from an absent document.
Spec == Init /\ [][Next]_vars

NextFaulty == AddFaulty \/ RmFaulty

\* The commands that write, on a disk whose writes can fail, from an absent
\* document.
SpecFaulty == Init /\ [][NextFaulty]_vars

\* Hand-written documents: duplicate names, cyphers that are not base64
\* (one whose decoded part is no ciphertext, one whose decoded part is a whole
\* ciphertext), and null.
DocNames == { <<"A">>, <<"B">> }

DocCyphers ==
    LET good == EncodeToString(encryptSymmetric(ValidKey, <<"x">>).bytes)
    IN  { good, <<"!">>, good \o <<"!">> }

DocSecrets ==
    { [name |-> n, cypher |-> c, created |-> "t1"] : n \in DocNames, c \in DocCyphers }

DocStores == UNION { [1..n -> DocSecrets] : n \in 0..MaxDoc }

InitialDocuments ==
    { Absent, Document(MarshalIndent(TRUE, <<>>)) }
    \cup { Document(MarshalIndent(FALSE, d)) : d \in DocStores }

InitDoc ==
    /\ file \in InitialDocuments
    /\ last = Invocation("none", <<>>, "")

NextDoc == Rm \/ List \/ Run

\* The commands that add no record, on a reliable disk, from any document
\* that readSecrets accepts.
SpecDoc == InitDoc /\ [][NextDoc]_vars

\* Documents that are present and do not parse: an empty file, text that is
\* not JSON, an object where the array is expected, truncated arrays, a
\* missing and a doubled comma.
CorruptDocuments ==
    LET s == [name |-> <<"A">>, cypher |-> <<"eA">>, created |-> "t1"]
        whole == MarshalIndent(FALSE, <<s, s>>)
    IN  { Document(<<>>),
          Document(<<Tok("?", <<>>)>>),
          Document(MarshalSecret(s)),
          Document(<<Tok("[", <<>>)>> \o MarshalSecret(s) \o MarshalSecret(s) \o <<Tok("]", <<>>)>>),
          Document(<<Tok("[", <<>>)>> \o MarshalSecret(s) \o <<Tok(",", <<>>), Tok("]", <<>>)>>),
          Document(whole \o <<Tok("]", <<>>)>>) }
    \cup { Document(SubSeq(whole, 1, k)) : k \in 1..(Len(whole) - 1) }

InitCorrupt ==
    /\ file \in CorruptDocuments
    /\ last = Invocation("none", <<>>, "")

\* All four commands, on a reliable disk, from a document that does not parse.
SpecCorrupt == InitCorrupt /\ [][Next]_vars

\* ================================================================ claims
\* The store the document holds, as readSecrets loads it.
Loaded == readSecrets(file)

Secrets == Loaded.data

\* The document is present and does not parse.
Corrupt(f) == f.exists /\ Unmarshal(f.data).err

\* The value a cypher stands for when the valid key decrypts it.
Reveals(cypher, value) ==
    LET d == DecodeString(cypher)
        p == decryptSymmetric(ValidKey, d.bytes)
    IN  ~d.err /\ ~p.err /\ p.bytes = value

\* ---------------------------------------------------------------------- C1
\* C1: starting from an absent document, after any sequence of add and rm
\* invocations the document parses and no two of its records have the same
\* case-normalized name; after a completed add(name, v) exactly one record
\* is named upper(name) and its cypher is the one produced for v; and an
\* add(name, v2) that follows a completed add(name, v1) completes and
\* replaces that record.
NameUniqueness ==
    /\ [](/\ ~Loaded.fatal
          /\ \A i, j \in 1..Len(Secrets) :
               ToUpper(Secrets[i].name) = ToUpper(Secrets[j].name) => i = j
          /\ (last.op = "add" /\ last.exit = 0) =>
               LET hits == { i \in 1..Len(Secrets) :
                               Secrets[i].name = ToUpper(last.args[1]) }
               IN  /\ Cardinality(hits) = 1
                   /\ \A i \in hits : Reveals(Secrets[i].cypher, last.args[2]))
    /\ [][ (/\ last.op = "add" /\ last.exit = 0
            /\ last'.op = "add" /\ Len(last'.args) >= 2 /\ last'.key = ValidKey
            /\ ToUpper(last'.args[1]) = ToUpper(last.args[1])) =>
             (last'.exit = 0 /\ Len(last'.log) = 1) ]_vars

\* An add has replaced the record of its name (one "Removing entry" line) in
\* a store that holds another record before it, and its value is "y".
NameUniquenessWitness ==
    /\ last.op = "add" /\ last.exit = 0
    /\ Len(last.log) = 1
    /\ last.args[2] = <<"y">>
    /\ Len(Secrets) >= 2
    /\ Secrets[Len(Secrets)].name = ToUpper(last.args[1])

\* ---------------------------------------------------------------------- C2
\* C2: the document never holds a record whose name is the empty string.
NoEmptyName ==
    ~Loaded.fatal => \A i \in 1..Len(Secrets) : Secrets[i].name # <<>>

\* ---------------------------------------------------------------------- C3
\* C3: once writeSecrets has truncated the document, whatever it leaves on
\* disk is either rejected by readSecrets or the complete store it was
\* given; a write that reported success left the complete store.
AtomicSave ==
    /\ last.wrote = "full" =>
         ~Loaded.fatal /\ Secrets = last.saved /\ Loaded.isNil = last.savedNil
    /\ last.wrote = "short" =>
         Loaded.fatal \/ (Secrets = last.saved /\ Loaded.isNil = last.savedNil)

\* A write of two or more records stopped part-way, inside the second record.
AtomicSaveWitness ==
    /\ last.wrote = "short"
    /\ Len(last.saved) >= 2
    /\ Len(file.data) > Len(MarshalIndent(FALSE, <<last.saved[1]>>))
    /\ Loaded.fatal

\* ---------------------------------------------------------------------- C4
\* C4: the exit status of run is the exit status of the child it started,
\* and is not zero when the child could not be started.
ExitStatusPropagated ==
    (last.op = "run" /\ last.child.attempted) =>
        IF last.child.started THEN last.exit = last.child.code ELSE last.exit # 0

\* ---------------------------------------------------------------------- C5
\* C5 as stated: a secret whose decode or decrypt fails adds no entry to the
\* environment of the command; the others are processed and the command is
\* launched.
FailedSecretSkipped ==
    (last.op = "run" /\ ~Loaded.fatal) =>
        /\ last.cmdEnv = last.environ \o SecretEnvs(last.key, Usable(last.key, Secrets))
        /\ last.child.attempted

\* C5 as amended: every record adds exactly one entry, in store order; the
\* entry of a record whose (partly) decoded cypher the KMS does not decrypt
\* is NAME= with an empty value, the entry of any other record is NAME= and
\* the plaintext of what was decoded; the command is launched.
FailedSecretExportedEmpty ==
    (last.op = "run" /\ ~Loaded.fatal) =>
        LET n == Len(last.environ)
        IN  /\ Len(last.cmdEnv) = n + Len(Secrets)
            /\ \A i \in 1..Len(Secrets) :
                 LET p == decryptSymmetric(last.key, DecodeString(Secrets[i].cypher).bytes)
                 IN  last.cmdEnv[n + i] =
                        Secrets[i].name \o <<"=">> \o (IF p.err THEN <<>> ELSE p.bytes)
            /\ last.child.attempted

\* A command was started after a run over a store in which one secret fails
\* to decrypt and a later one decrypts.
FailedSecretExportedEmptyWitness ==
    /\ last.op = "run" /\ ~Loaded.fatal /\ last.child.started
    /\ \E i, j \in 1..Len(Secrets) :
         /\ i < j
         /\ DecryptFails(last.key, Secrets[i])
         /\ ~DecryptFails(last.key, Secrets[j])

\* ---------------------------------------------------------------------- C6
\* C6: the argument vector of the started child is the command followed by
\* the arguments, as given on the command line.
ArgsUnchanged ==
    (last.op = "run" /\ last.child.started) => last.child.argv = last.args

\* ---------------------------------------------------------------------- C7
\* C7: when every decryption succeeds, the environment built by run is the
\* inherited environment followed by one NAME=plaintext entry per record, in
\* store order, the plaintext being the value the record's cypher was made
\* from; the child sees the secret's value under the secret's name, also
\* when an inherited variable has that name.
ChildEnvironment ==
    (/\ last.op = "run" /\ ~Loaded.fatal
     /\ \A i \in 1..Len(Secrets) : ~DecryptFails(last.key, Secrets[i])) =>
        LET n == Len(last.environ)
        IN  /\ Len(last.cmdEnv) = n + Len(Secrets)
            /\ SubSeq(last.cmdEnv, 1, n) = last.environ
            /\ \A i \in 1..Len(Secrets) :
                 \E v \in Plaintexts :
                   /\ Secrets[i].cypher = EncodeToString(encryptSymmetric(ValidKey, v).bytes)
                   /\ last.cmdEnv[n + i] = Secrets[i].name \o <<"=">> \o v
                   /\ Getenv(last.cmdEnv, Secrets[i].name) = v

\* A command was started with the valid key over a store of two or more
\* records, the second of which has the name of an inherited variable.
ChildEnvironmentWitness ==
    /\ last.op = "run" /\ ~Loaded.fatal /\ last.key = ValidKey /\ last.child.started
    /\ Len(Secrets) >= 2
    /\ \E k \in 1..Len(last.environ) : EnvName(last.environ[k]) = Secrets[2].name
    /\ Getenv(last.environ, Secrets[2].name) # Getenv(last.cmdEnv, Secrets[2].name)

\* ---------------------------------------------------------------------- C8
\* C8: on a document that is present and does not parse, every command ends
\* with a non-zero exit status and leaves the document as it is; list prints
\* nothing, add and rm write nothing, run launches no child.
CorruptStoreIsFatal ==
    [][ Corrupt(file) =>
          /\ file' = file
          /\ last'.exit # 0
          /\ last'.out = <<>>
          /\ last'.wrote = "none"
          /\ ~last'.child.attempted ]_vars

\* A run with a command and the valid key has ended fatally on a document
\* that does not parse.
CorruptStoreIsFatalWitness ==
    /\ Corrupt(file)
    /\ last.op = "run" /\ last.args # <<>> /\ last.key = ValidKey
    /\ last.exit = 1 /\ ~last.child.attempted

\* ---------------------------------------------------------------------- C9
\* C9: an add whose Encrypt call fails ends fatally, writes nothing and
\* leaves the document as it was.
EncryptFailureLeavesStore ==
    [][ (/\ last'.op = "add" /\ Len(last'.args) >= 2
         /\ encryptSymmetric(last'.key, last'.args[2]).err) =>
          /\ file' = file
          /\ last'.exit = 1
          /\ last'.wrote = "none" ]_vars

\* An add of a name the store already holds has failed to encrypt.
EncryptFailureLeavesStoreWitness ==
    /\ last.op = "add" /\ Len(last.args) >= 2
    /\ encryptSymmetric(last.key, last.args[2]).err
    /\ last.exit = 1
    /\ ~Loaded.fatal
    /\ \E i \in 1..Len(Secrets) : Secrets[i].name = ToUpper(last.args[1])

\* --------------------------------------------------------------------- C10
\* C10: on any document that readSecrets accepts, rm(name) succeeds and
\* leaves no record named upper(name).
RmRemovesEveryMatch ==
    (last.op = "rm" /\ ~Loaded.fatal) =>
        /\ last.exit = 0
        /\ \A i \in 1..Len(Secrets) : Secrets[i].name # ToUpper(First(last.args))

====
